---- MODULE Spec2Model ----
(***************************************************************************)
(* The presentation loop of src/src/main.rs: the closure handed to         *)
(* event_loop.run (lines 194-244) and the state it captures.               *)
(*                                                                         *)
(* Every action is one invocation of the closure for one event.  The       *)
(* results of the vulkano calls (acquire_next_image, the command buffer    *)
(* build, then_execute, then_signal_fence_and_flush) are inputs of the     *)
(* action, drawn from the variants the closure matches on or unwraps.      *)
(***************************************************************************)
EXTENDS Integers, Sequences, FiniteSets, TLC

\* Bounds of the model.
MaxImages == 3      \* largest number of swapchain images
MaxFrames == 3      \* largest number of frames handed to the queue

\* vulkano::sync::now(device): the already-signaled completion handle.
\* The handle produced by the n-th call of then_signal_fence_and_flush is n.
Now == 0

VARIABLES
    image_count,         \* images.len(), fixed by Swapchain::new
    swapchain,           \* generation of the swapchain object the closure holds
    recreate_swapchain,  \* the "recreate needed" flag
    previous_frame_end,  \* the stored completion handle
    control_flow,        \* *control_flow: "Poll" or "Exit"
    status,              \* the process: "running", "panicked" or "exited"
    out_of_date,         \* the surface no longer matches the swapchain
    frames,              \* number of then_execute calls that returned Ok
    failed,              \* frames whose flush returned an error
    iter,                \* what the latest invocation of the closure did
    caps,                \* surface.capabilities(physical)
    dimensions,          \* the extent handed to Swapchain::new
    images,              \* the swapchain's images, in its order
    framebuffers,        \* one framebuffer per image
    frame_graph,         \* render pass, pipeline and vertex buffer
    command_buffer,      \* the commands recorded before the loop
    live                 \* completion handles held in the previous-frame slot

\* What main builds before the loop; the closure only reads it.
built == <<caps, dimensions, images, framebuffers, frame_graph,
           command_buffer>>

vars == <<image_count, swapchain, recreate_swapchain, previous_frame_end,
          control_flow, status, out_of_date, frames, failed, iter, built,
          live>>

\* InitialPreviousFrameEnd as it would be if the slot started with the handle
\* of work still pending.
InitialPreviousFrameEnd_Pending == Now + 1

\* The closure captures recreate_swapchain and previous_frame_end, but
\* main.rs never declares them: their first values are taken from the
\* specification (section 4.5, "Initial state").
InitialRecreateSwapchain == FALSE
InitialPreviousFrameEnd == Now

\* The extents (width, height) a surface may report.
Extents == {<<800, 600>>, <<1024, 768>>, <<1920, 1080>>}

\* Extent e lies within [lo, hi] in both directions.
Within(e, lo, hi) ==
    /\ lo[1] <= e[1] /\ e[1] <= hi[1]
    /\ lo[2] <= e[2] /\ e[2] <= hi[2]

\* The reports surface.capabilities(physical) may give: max_image_count and
\* current_extent are Options (<<>> is None), the maximum is not below the
\* minimum, and a reported current extent lies within the extent limits.
SurfaceCapabilities ==
    {c \in [min_image_count : 1..MaxImages,
            max_image_count : {<<>>} \cup {<<n>> : n \in 1..MaxImages},
            current_extent : {<<>>} \cup {<<e>> : e \in Extents},
            min_image_extent : Extents,
            max_image_extent : Extents] :
        /\ c.max_image_count # <<>>
                => c.min_image_count <= c.max_image_count[1]
        /\ c.min_image_extent[1] <= c.max_image_extent[1]
        /\ c.min_image_extent[2] <= c.max_image_extent[2]
        /\ c.current_extent # <<>>
                => Within(c.current_extent[1], c.min_image_extent,
                          c.max_image_extent)}

\* let dimensions = caps.current_extent.unwrap_or([1024, 768]);
Dimensions(c) ==
    IF c.current_extent = <<>> THEN <<1024, 768>> ELSE c.current_extent[1]

\* RequestedImages as it would be if one image more than the minimum were
\* asked for.
RequestedImages_OneMore(c) == c.min_image_count + 1

\* The image count handed to Swapchain::new: caps.min_image_count.
RequestedImages(c) == c.min_image_count

\* The format handed to Swapchain::new, which swapchain.format() returns.
SwapchainFormat == "B8G8R8A8Srgb"

\* The image counts Swapchain::new may come back with: at least the count
\* asked for, and no more than the surface allows when the request respects
\* that limit (the model's bound stands in for "no limit").
ImageCounts(c, requested) ==
    LET limit == IF c.max_image_count = <<>> THEN MaxImages
                 ELSE c.max_image_count[1]
    IN  requested..(IF requested > limit THEN requested ELSE limit)

\* The images of a swapchain of n images, all of the swapchain's format.
SwapchainImages(n) ==
    [i \in 0..(n - 1) |-> [id |-> i, format |-> SwapchainFormat]]

\* single_pass_renderpass!: one colour attachment of the swapchain's format.
RenderPass ==
    [format |-> SwapchainFormat, load |-> "Clear", store |-> "Store",
     samples |-> 1]

\* BuildFramebuffers as it would be if the first image were skipped.
BuildFramebuffers_SkipsFirst(imgs, render_pass) ==
    [i \in (DOMAIN imgs) \ {0} |->
        [attachment |-> imgs[i], render_pass |-> render_pass]]

\* images.iter().map(|image| Framebuffer::start(render_pass).add(image)...)
BuildFramebuffers(imgs, render_pass) ==
    [i \in DOMAIN imgs |->
        [attachment |-> imgs[i], render_pass |-> render_pass]]

\* The three vertices of the vertex buffer, positions in hundredths.
VertexBuffer == << <<-50, -25>>, <<0, 50>>, <<25, -10>> >>

\* GraphicsPipeline::start() ... .build(device)
Pipeline ==
    [vertex_input |-> "Vertex", topology |-> "triangle_list",
     viewports |-> 1, render_pass |-> RenderPass]

\* The render pass, the pipeline and the vertex buffer main builds once.
FrameGraph ==
    [render_pass |-> RenderPass, pipeline |-> Pipeline,
     vertex_buffer |-> VertexBuffer]

\* framebuffers: one per swapchain image, in the order of images.
Framebuffers(n) == [i \in 0..(n - 1) |-> i]

\* The command buffer is recorded once, before the loop, against
\* framebuffers[0]; every frame executes a clone of it.
CommandBufferTarget(fbs) == fbs[0]

\* builder.draw(pipeline, &DynamicState::none(), vec![vertex_buffer], (), ()):
\* binds the pipeline and the vertex buffer and draws every vertex of the
\* buffer once.
Draw(pipeline, vertex_buffer) ==
    << [op |-> "bind_pipeline", pipeline |-> pipeline],
       [op |-> "bind_vertex_buffers", buffer |-> vertex_buffer],
       [op |-> "draw", vertex_count |-> Len(vertex_buffer),
        instance_count |-> 1] >>

\* The clear colour [0.0, 0.0, 1.0, 1.0], in hundredths.
ClearColour == <<0, 0, 100, 100>>

\* RecordCommandBuffer as it would be if end_render_pass came before the draw.
RecordCommandBuffer_EndsEarly(fbs, pipeline, vertex_buffer) ==
    << [op |-> "begin_render_pass",
        framebuffer |-> CommandBufferTarget(fbs), clear |-> ClearColour],
       [op |-> "end_render_pass"] >>
    \o Draw(pipeline, vertex_buffer)

\* builder.begin_render_pass(framebuffers[0], ..).draw(..).end_render_pass(),
\* then builder.build(): the commands of command_buffer.
RecordCommandBuffer(fbs, pipeline, vertex_buffer) ==
    << [op |-> "begin_render_pass",
        framebuffer |-> CommandBufferTarget(fbs), clear |-> ClearColour] >>
    \o Draw(pipeline, vertex_buffer)
    \o << [op |-> "end_render_pass"] >>

\* The per-frame command buffer: execute_commands(command_buffer.clone()).
PerFrameCommandBuffer(cb) == << [op |-> "execute_commands", commands |-> cb] >>

\* The commands a command buffer makes the queue run, in order: those of an
\* executed command buffer in the place of the execute_commands.
RECURSIVE Executed(_)
Executed(cb) ==
    IF cb = <<>> THEN <<>>
    ELSE (IF Head(cb).op = "execute_commands"
            THEN Executed(Head(cb).commands) ELSE <<Head(cb)>>)
         \o Executed(Tail(cb))

\* join takes self by value: the handle is moved out of the slot.
Taken(n) == n - 1

\* previous_frame_end = Box::new(..): one handle is put into the slot.
Stored(n) == n + 1

\* previous_frame_end.join(acquire_future)
Join(prev, acquire_future) == [prev |-> prev, acquire |-> acquire_future]

\* What an invocation of the closure has done when it has only matched the
\* event: no acquire, nothing recorded, nothing submitted.
Entered(event) ==
    [event |-> event,
     after_exit |-> (control_flow = "Exit"),
     flag_at_acquire |-> FALSE,
     acquire |-> "none",
     image_index |-> <<>>,
     target |-> <<>>,
     joined |-> <<>>,
     presented |-> <<>>,
     commands |-> <<>>,
     step |-> "none"]

\* An invocation that reached acquire_next_image(swapchain.clone(), None).
Acquiring(outcome) ==
    [Entered("redraw") EXCEPT !.acquire = outcome,
                              !.flag_at_acquire = recreate_swapchain]

\* An invocation whose acquire returned Ok((image_index, acquire_future)).
Acquired(image_index) ==
    [Acquiring("Ok") EXCEPT !.image_index = <<image_index>>]

\* An invocation that built the per-frame command buffer and the chain
\* join -> then_execute -> then_swapchain_present, and flushed it.
Chained(image_index, step) ==
    [Acquired(image_index) EXCEPT
        !.target = <<CommandBufferTarget(Framebuffers(image_count))>>,
        !.joined = <<Join(previous_frame_end, image_index)>>,
        !.presented = <<image_index>>,
        !.commands = Executed(PerFrameCommandBuffer(command_buffer)),
        !.step = step]

Init ==
    /\ caps \in SurfaceCapabilities
    /\ dimensions = Dimensions(caps)
    /\ image_count \in ImageCounts(caps, RequestedImages(caps))
    /\ images = SwapchainImages(image_count)
    /\ framebuffers = BuildFramebuffers(images, RenderPass)
    /\ frame_graph = FrameGraph
    /\ command_buffer = RecordCommandBuffer(Framebuffers(image_count),
                                           Pipeline, VertexBuffer)
    /\ swapchain = 0
    /\ recreate_swapchain = InitialRecreateSwapchain
    /\ previous_frame_end = InitialPreviousFrameEnd
    /\ control_flow = "Poll"
    /\ status = "running"
    /\ out_of_date = FALSE
    /\ frames = 0
    /\ failed = {}
    /\ iter = Entered("none")
    /\ live = Stored(0)

\* winit calls the closure for as long as the loop lives.  Setting
\* *control_flow = Exit does not end the deliveries at once: Exit is sticky,
\* the events still queued are handed to the closure, LoopDestroyed is the
\* last one, and then the process exits.
Delivering == status = "running"

\* WindowEvent::CloseRequested => { *control_flow = ControlFlow::Exit; return; }
CloseRequested ==
    /\ Delivering
    /\ control_flow' = "Exit"
    /\ iter' = Entered("close")
    /\ UNCHANGED <<built, live, image_count, swapchain, recreate_swapchain,
                   previous_frame_end, status, out_of_date, frames, failed>>

\* AcquireOutOfDate as it would be if the arm reset the stored handle the way
\* the flush arms do.
AcquireOutOfDate_ResetsHandle ==
    /\ recreate_swapchain' = TRUE
    /\ out_of_date' = TRUE
    /\ previous_frame_end' = Now
    /\ iter' = Acquiring("OutOfDate")
    /\ UNCHANGED <<built, live, image_count, swapchain, control_flow, status,
                   frames, failed>>

\* Err(AcquireError::OutOfDate) => { recreate_swapchain = true; return; }
AcquireOutOfDate ==
    /\ recreate_swapchain' = TRUE
    /\ out_of_date' = TRUE
    /\ iter' = Acquiring("OutOfDate")
    /\ UNCHANGED <<built, live, image_count, swapchain, previous_frame_end,
                   control_flow, status, frames, failed>>

\* AcquireError as it would be if the arm were handled like OutOfDate
\* instead of panicking.
AcquireError_Continues ==
    /\ recreate_swapchain' = TRUE
    /\ iter' = Acquiring("Error")
    /\ UNCHANGED <<built, live, image_count, swapchain, previous_frame_end,
                   control_flow, status, out_of_date, frames, failed>>

\* Err(e) => panic!("Failed to acquire next image: {:?}", e)
AcquireError ==
    /\ status' = "panicked"
    /\ iter' = Acquiring("Error")
    /\ UNCHANGED <<built, live, image_count, swapchain, recreate_swapchain,
                   previous_frame_end, control_flow, out_of_date, frames,
                   failed>>

\* An unwrap() of the per-frame command buffer build (primary_one_time_submit,
\* execute_commands, build) meets an Err: the process panics.
BuildPanic(image_index) ==
    /\ status' = "panicked"
    /\ iter' = [Acquired(image_index) EXCEPT !.step = "BuildErr"]
    /\ UNCHANGED <<built, live, image_count, swapchain, recreate_swapchain,
                   previous_frame_end, control_flow, out_of_date, frames,
                   failed>>

\* then_execute(queue, command_buffer).unwrap() meets an Err: the process
\* panics with the chain half built.
ExecutePanic(image_index) ==
    /\ live' = Taken(live)
    /\ status' = "panicked"
    /\ iter' = [Acquired(image_index) EXCEPT
                   !.target =
                     <<CommandBufferTarget(Framebuffers(image_count))>>,
                   !.joined = <<Join(previous_frame_end, image_index)>>,
                   !.step = "ExecErr"]
    /\ UNCHANGED <<built, image_count, swapchain, recreate_swapchain,
                   previous_frame_end, control_flow, out_of_date, frames,
                   failed>>

\* FlushOk as it would be if the arm stored now(device) instead of the future.
FlushOk_StoresNow(image_index) ==
    /\ live' = Stored(Taken(live))
    /\ frames' = frames + 1
    /\ previous_frame_end' = Now
    /\ iter' = Chained(image_index, "FlushOk")
    /\ UNCHANGED <<built, image_count, swapchain, recreate_swapchain,
                   control_flow, status, out_of_date, failed>>

\* Ok(future) => { previous_frame_end = Box::new(future); }
FlushOk(image_index) ==
    /\ live' = Stored(Taken(live))
    /\ frames' = frames + 1
    /\ previous_frame_end' = frames'
    /\ iter' = Chained(image_index, "FlushOk")
    /\ UNCHANGED <<built, image_count, swapchain, recreate_swapchain,
                   control_flow, status, out_of_date, failed>>

\* FlushOutOfDate as it would be if the arm kept the failed frame's handle.
FlushOutOfDate_KeepsHandle(image_index) ==
    /\ live' = Stored(Taken(live))
    /\ frames' = frames + 1
    /\ failed' = failed \cup {frames'}
    /\ recreate_swapchain' = TRUE
    /\ previous_frame_end' = frames'
    /\ out_of_date' = TRUE
    /\ iter' = Chained(image_index, "FlushOutOfDate")
    /\ UNCHANGED <<built, image_count, swapchain, control_flow, status>>

\* Err(FlushError::OutOfDate) => { recreate_swapchain = true;
\*                                 previous_frame_end = now(device); }
FlushOutOfDate(image_index) ==
    /\ live' = Stored(Taken(live))
    /\ frames' = frames + 1
    /\ failed' = failed \cup {frames'}
    /\ recreate_swapchain' = TRUE
    /\ previous_frame_end' = Now
    /\ out_of_date' = TRUE
    /\ iter' = Chained(image_index, "FlushOutOfDate")
    /\ UNCHANGED <<built, image_count, swapchain, control_flow, status>>

\* FlushError as it would be if the arm only logged the error and stored no
\* new handle.
FlushError_OnlyLogs(image_index) ==
    /\ live' = Taken(live)
    /\ frames' = frames + 1
    /\ failed' = failed \cup {frames'}
    /\ previous_frame_end' = Now
    /\ iter' = Chained(image_index, "FlushErr")
    /\ UNCHANGED <<built, image_count, swapchain, recreate_swapchain,
                   control_flow, status, out_of_date>>

\* Err(e) => { println!(...); previous_frame_end = now(device); }
FlushError(image_index) ==
    /\ live' = Stored(Taken(live))
    /\ frames' = frames + 1
    /\ failed' = failed \cup {frames'}
    /\ previous_frame_end' = Now
    /\ iter' = Chained(image_index, "FlushErr")
    /\ UNCHANGED <<built, image_count, swapchain, recreate_swapchain,
                   control_flow, status, out_of_date>>

\* Ok(r) => r, and the rest of the RedrawRequested arm.  An out-of-date
\* swapchain yields no image; it stays out of date until it is rebuilt.
AcquireOk(image_index) ==
    /\ ~out_of_date
    /\ frames < MaxFrames
    /\ \/ BuildPanic(image_index)
       \/ ExecutePanic(image_index)
       \/ FlushOk(image_index)
       \/ FlushOutOfDate(image_index)
       \/ FlushError(image_index)

\* Event::RedrawRequested(_) => { ... }
RedrawRequested ==
    /\ Delivering
    /\ \/ \E image_index \in 0..(image_count - 1) : AcquireOk(image_index)
       \/ AcquireOutOfDate
       \/ AcquireError

\* OtherEvent as it would be if the catch-all arm cleared the recreate flag.
OtherEvent_ClearsFlag ==
    /\ Delivering
    /\ \E resized \in BOOLEAN : out_of_date' = (out_of_date \/ resized)
    /\ iter' = Entered("other")
    /\ recreate_swapchain' = FALSE
    /\ UNCHANGED <<built, live, image_count, swapchain, previous_frame_end,
                   control_flow, status, frames, failed>>

\* _ => ()  for any other event while the loop lives; a resize of the window
\* is one of them and leaves the swapchain out of date.
OtherEvent ==
    /\ Delivering
    /\ \E resized \in BOOLEAN : out_of_date' = (out_of_date \/ resized)
    /\ iter' = Entered("other")
    /\ UNCHANGED <<built, live, image_count, swapchain, recreate_swapchain,
                   previous_frame_end, control_flow, status, frames, failed>>

\* _ => ()  for Event::LoopDestroyed, the last event after Exit was set;
\* event_loop.run then ends the process.
LoopDestroyed ==
    /\ Delivering
    /\ control_flow = "Exit"
    /\ status' = "exited"
    /\ iter' = Entered("destroyed")
    /\ UNCHANGED <<built, live, image_count, swapchain, recreate_swapchain,
                   previous_frame_end, control_flow, out_of_date, frames,
                   failed>>

Next ==
    \/ CloseRequested
    \/ RedrawRequested
    \/ OtherEvent
    \/ LoopDestroyed

Spec == Init /\ [][Next]_vars

\* Redraw requests keep arriving for as long as the loop lives.
FairSpec == Spec /\ WF_vars(RedrawRequested)

TypeOK ==
    /\ image_count \in 1..MaxImages
    /\ swapchain \in Nat
    /\ recreate_swapchain \in BOOLEAN
    /\ previous_frame_end \in 0..MaxFrames
    /\ control_flow \in {"Poll", "Exit"}
    /\ status \in {"running", "panicked", "exited"}
    /\ out_of_date \in BOOLEAN
    /\ frames \in 0..MaxFrames
    /\ failed \subseteq 1..MaxFrames
    /\ caps \in SurfaceCapabilities
    /\ dimensions \in Extents
    /\ live \in 0..1
    /\ Len(command_buffer) = 5

\* The invocation handed a command buffer to the queue chain.
Submitted(i) == i.step \in {"FlushOk", "FlushOutOfDate", "FlushErr"}

(***************************************************************************)
(* The claims.                                                             *)
(***************************************************************************)

\* C1: every OutOfDate outcome is followed by exactly one recreate of the
\* swapchain, with the flag cleared, before the next acquire attempt: an
\* invocation that reaches acquire with the flag set has rebuilt the
\* swapchain once and cleared the flag first, and the swapchain is rebuilt
\* at no other time.
C1_RecreateBeforeAcquire ==
    [][/\ (iter'.acquire # "none" /\ recreate_swapchain)
            => (swapchain' = swapchain + 1 /\ ~iter'.flag_at_acquire)
       /\ (~recreate_swapchain => swapchain' = swapchain)]_vars

\* C2: every submitted command buffer renders into the RenderTarget whose
\* index is the image index this iteration's acquire returned, which is the
\* index presented and lies within the swapchain's image count.
C2_TargetIsAcquiredImage ==
    Submitted(iter) =>
        /\ iter.image_index[1] \in 0..(image_count - 1)
        /\ iter.presented = iter.image_index
        /\ iter.target = iter.image_index

\* C3: with redraw requests arriving for ever, an OutOfDate acquire is
\* eventually followed by a frame that is submitted and flushed (unless the
\* process has been closed or has aborted meanwhile).
C3_StaleEventuallySubmits ==
    [](iter.acquire = "OutOfDate"
        => <>(iter.step = "FlushOk" \/ status # "running"
                \/ control_flow = "Exit"))

\* C4: in the loop phase the process terminates only on a close request or
\* on an acquire error other than OutOfDate; after a submit or flush failure
\* the process is still running.
C4_TerminatesOnlyOnCloseOrAcquireError ==
    /\ status = "panicked" => iter.acquire = "Error"
    /\ status = "exited" => control_flow = "Exit"
    /\ iter.step \in {"ExecErr", "FlushOutOfDate", "FlushErr"}
            => status = "running"

\* C5: an invocation whose acquire returns OutOfDate sets the recreate flag
\* and ends: nothing is submitted, no present is enqueued, the stored
\* completion handle is unchanged, and the loop lives on to retry.
C5_AcquireOutOfDateSkipsFrame ==
    [][iter'.acquire = "OutOfDate" =>
        /\ recreate_swapchain'
        /\ previous_frame_end' = previous_frame_end
        /\ frames' = frames
        /\ ~Submitted(iter')
        /\ iter'.joined = <<>>
        /\ iter'.presented = <<>>
        /\ status' = status
        /\ control_flow' = control_flow]_vars

C5_Witness ==
    /\ iter.acquire = "OutOfDate"
    /\ recreate_swapchain
    /\ previous_frame_end # Now
    /\ status = "running"

\* C6: after a flush that failed with OutOfDate the recreate flag is set and
\* the stored handle is the already-signaled one; the stored handle, which
\* the following iteration joins, is never that of a frame whose flush
\* failed.
C6_FlushOutOfDateResets ==
    /\ iter.step = "FlushOutOfDate"
            => (recreate_swapchain /\ previous_frame_end = Now)
    /\ previous_frame_end \notin failed

C6_Witness ==
    /\ iter.step = "FlushOutOfDate"
    /\ iter.joined[1].prev # Now
    /\ previous_frame_end = Now
    /\ recreate_swapchain

\* C7: after a submit or flush failure other than staleness the stored
\* handle is the already-signaled one and the process has not aborted.
C7_SubmitFailureDropsFrame ==
    iter.step \in {"ExecErr", "FlushErr"}
        => (status = "running" /\ previous_frame_end = Now)

\* C8: an acquire error other than OutOfDate aborts the process: the
\* invocation submits and presents nothing and leaves the stored handle
\* alone, and no later invocation runs.
C8_AcquireErrorAborts ==
    [][/\ iter'.acquire = "Error" =>
            /\ status' = "panicked"
            /\ iter'.step = "none"
            /\ iter'.presented = <<>>
            /\ frames' = frames
            /\ previous_frame_end' = previous_frame_end
       /\ iter.acquire # "Error"]_vars

C8_Witness ==
    /\ iter.acquire = "Error"
    /\ status = "panicked"
    /\ frames > 0

\* C9: every submission is chained on the join of the stored handle and this
\* iteration's acquisition signal; if the previous frame was flushed, its
\* handle is the one joined; a successful flush stores the new frame's
\* handle; and frames are submitted one at a time, in order.
C9_HandleChaining ==
    [][/\ Submitted(iter') =>
            /\ frames' = frames + 1
            /\ iter'.joined
                 = <<Join(previous_frame_end, iter'.image_index[1])>>
            /\ (frames >= 1 /\ frames \notin failed)
                    => iter'.joined[1].prev = frames
            /\ (frames = 0 \/ frames \in failed)
                    => iter'.joined[1].prev = Now
            /\ iter'.step = "FlushOk" => previous_frame_end' = frames'
       /\ frames' \in {frames, frames + 1}]_vars

C9_Witness ==
    /\ iter.step = "FlushOk"
    /\ frames >= 2
    /\ iter.joined[1].prev = frames - 1
    /\ previous_frame_end = frames

\* C10: once a close request has been delivered, no invocation of the
\* closure acquires, submits or presents, whatever events follow.
C10_NothingAfterClose ==
    iter.after_exit =>
        (iter.acquire = "none" /\ iter.step = "none"
            /\ iter.presented = <<>>)

\* C11: before the first frame is submitted the previous-frame slot holds the
\* already-signaled handle, and the first submission joins that handle with
\* its own acquisition signal only.
C11_FirstFrameNeverWaits ==
    [][frames = 0 =>
        /\ previous_frame_end = Now
        /\ iter'.joined # <<>> =>
              iter'.joined = <<Join(Now, iter'.image_index[1])>>]_vars

C11_Witness ==
    /\ frames = 1
    /\ iter.step = "FlushOk"
    /\ iter.joined = <<Join(Now, iter.image_index[1])>>

\* C12: between iterations exactly one completion handle is held in the
\* previous-frame slot: a submit joins (and so takes) the stored handle, and
\* every outcome of the flush puts exactly one handle back.
C12_OneLiveHandle ==
    [][/\ status # "panicked" => live = 1
       /\ Submitted(iter') =>
            /\ iter'.joined[1].prev = previous_frame_end
            /\ live' = 1]_vars

C12_Witness ==
    /\ live = 1
    /\ frames = MaxFrames
    /\ failed # {}
    /\ previous_frame_end \notin failed
    /\ iter.step = "FlushOk"

\* C14: in every reachable state the Render Target Set has exactly one entry
\* per image of the swapchain, entry i holding image i, and every entry's
\* attachment has the format the render pass expects.
C14_RenderTargetsMatchImages ==
    /\ DOMAIN images = 0..(image_count - 1)
    /\ DOMAIN framebuffers = DOMAIN images
    /\ \A i \in DOMAIN framebuffers :
        /\ framebuffers[i].attachment = images[i]
        /\ framebuffers[i].render_pass = frame_graph.render_pass
        /\ framebuffers[i].attachment.format = frame_graph.render_pass.format

C14_Witness ==
    /\ image_count >= 2
    /\ iter.step = "FlushOutOfDate"
    /\ recreate_swapchain
    /\ \A i \in 0..(image_count - 1) : framebuffers[i].attachment.id = i

\* C15: whatever the surface reports, the swapchain has at least the
\* reported minimum of images and at most the reported maximum (when one is
\* reported), and its extent is the surface's current extent when the
\* surface reports one.
C15_ImageCountAndExtent ==
    /\ caps.min_image_count <= image_count
    /\ caps.max_image_count # <<>> => image_count <= caps.max_image_count[1]
    /\ caps.current_extent # <<>> => dimensions = caps.current_extent[1]

C15_Witness ==
    /\ caps.current_extent = << <<1024, 768>> >>
    /\ caps.min_image_count = 2
    /\ dimensions = <<1024, 768>>
    /\ image_count >= 2
    /\ iter.step = "FlushOk"

\* C16: for every capability report, also one without a current extent, the
\* extent handed to swapchain creation lies within the reported minimum and
\* maximum extent.
C16_ExtentWithinLimits ==
    Within(dimensions, caps.min_image_extent, caps.max_image_extent)

\* How many times the commands of the one-time-submit command_buffer
\* recorded before the loop have been handed to the queue: once per frame,
\* since every per-frame command buffer executes a clone of it.
PreRecordedExecutions ==
    LET per_frame == PerFrameCommandBuffer(command_buffer)
    IN  IF \E k \in 1..Len(per_frame) :
                /\ per_frame[k].op = "execute_commands"
                /\ per_frame[k].commands = command_buffer
        THEN frames ELSE 0

\* C18: the commands a frame submits are begin-render-pass(R, clear colour),
\* bind pipeline, bind vertex buffer, draw(3 vertices, 1 instance),
\* end-render-pass, in that order, for some render target R; and no step
\* changes the Frame Graph, which stays as it was built.
C18_FixedCommandSequence ==
    [][/\ frame_graph' = frame_graph
       /\ frame_graph = FrameGraph
       /\ Submitted(iter') =>
            \E R \in DOMAIN framebuffers :
                iter'.commands =
                    << [op |-> "begin_render_pass", framebuffer |-> R,
                        clear |-> ClearColour],
                       [op |-> "bind_pipeline",
                        pipeline |-> frame_graph.pipeline],
                       [op |-> "bind_vertex_buffers",
                        buffer |-> frame_graph.vertex_buffer],
                       [op |-> "draw", vertex_count |-> 3,
                        instance_count |-> 1],
                       [op |-> "end_render_pass"] >>]_vars

C18_Witness ==
    /\ frames >= 2
    /\ iter.step = "FlushOk"
    /\ Len(iter.commands) = 5
    /\ iter.commands[4].op = "draw"
    /\ iter.commands[4].vertex_count = 3
    /\ frame_graph = FrameGraph

\* C19: an invocation of the closure hands at most one frame to the queue,
\* only for a redraw request whose acquire succeeded and with the acquired
\* image presented; an event other than close and redraw acquires, submits
\* and presents nothing and leaves the recreate flag, the swapchain and the
\* previous-frame handle as they were.
C19_OneFramePerRedraw ==
    [][/\ frames' \in {frames, frames + 1}
       /\ (frames' # frames \/ iter'.presented # <<>>) =>
            /\ iter'.event = "redraw"
            /\ iter'.acquire = "Ok"
            /\ Submitted(iter')
            /\ iter'.presented = iter'.image_index
       /\ iter'.acquire # "none" => iter'.event = "redraw"
       /\ iter'.event \notin {"redraw", "close"} =>
            /\ iter'.acquire = "none"
            /\ iter'.step = "none"
            /\ iter'.presented = <<>>
            /\ frames' = frames
            /\ recreate_swapchain' = recreate_swapchain
            /\ swapchain' = swapchain
            /\ images' = images
            /\ framebuffers' = framebuffers
            /\ previous_frame_end' = previous_frame_end]_vars

C19_Witness ==
    /\ iter.event = "other"
    /\ recreate_swapchain
    /\ previous_frame_end # Now
    /\ frames >= 2

\* C20: a command buffer created for one-time submission is handed to the
\* queue at most once over the whole run, the one recorded before the loop
\* included.
C20_OneTimeSubmitOnce == PreRecordedExecutions <= 1

====
